---- MODULE Spec2Model ----
(***************************************************************************)
(* Model of dismiss-stale-approvals-action (src/index.js).                 *)
(*                                                                         *)
(* A string is a sequence of one-character strings.  A commit id is one    *)
(* non-blank character of such a string.                                   *)
(***************************************************************************)
EXTENDS Integers, Sequences, FiniteSets, TLC

----------------------------------------------------------------------------
(* Bounds of the model *)

\* longest raw comparison output enumerated character by character
MaxLen == 6
\* most lines / most columns per line of a comparison output built from tokens
MaxLines == 2
MaxCols == 3
\* most reviews on the pull request when a reconciliation is examined alone
MaxReviews == 2
\* most executions of the action in one behaviour
MaxExecutions == 2
\* longest history of the branch to which a run that skipped the action is added
MaxRuns == 2
\* longest history of the branch when the search is examined alone
MaxHistory == 11
\* most reviews on the pull request when the paging is examined alone
MaxTotal == 201
\* most records in the output of one git range-diff
MaxCommits == 1

----------------------------------------------------------------------------
(* Program constants *)

\* per_page of the review listing
PerPage == 100
\* Math.min(10, workflowRuns.length)
ScanWindow == 10
\* const artifactName = 'stale-approvals-shas'
artifactName == "stale-approvals-shas"

----------------------------------------------------------------------------
(* Strings *)

NL == "\n"
CR == "\r"
SP == " "
EQ == "="

\* what the regular expression class \s matches, among the characters used
IsSpace(c) == c \in {SP, NL, CR}

\* s[from..to] of a sequence, empty when from > to
Slice(s, from, to) == [i \in 1..(to - from + 1) |-> s[from + i - 1]]

\* index of the first NL in s, 0 if none
FirstNL(s) ==
    IF \E i \in 1..Len(s) : s[i] = NL
    THEN CHOOSE i \in 1..Len(s) : s[i] = NL /\ \A j \in 1..(i - 1) : s[j] # NL
    ELSE 0

\* String.prototype.split(/\r?\n/)
RECURSIVE SplitLines(_)
SplitLines(s) ==
    LET i == FirstNL(s) IN
    IF i = 0 THEN <<s>>
    ELSE LET e == IF i > 1 /\ s[i - 1] = CR THEN i - 2 ELSE i - 1
         IN  <<Slice(s, 1, e)>> \o SplitLines(Slice(s, i + 1, Len(s)))

\* String.prototype.trim()
RECURSIVE TrimLeft(_)
TrimLeft(s) == IF s # <<>> /\ IsSpace(Head(s)) THEN TrimLeft(Tail(s)) ELSE s

RECURSIVE TrimRight(_)
TrimRight(s) ==
    IF s # <<>> /\ IsSpace(s[Len(s)]) THEN TrimRight(Slice(s, 1, Len(s) - 1)) ELSE s

Trim(s) == TrimRight(TrimLeft(s))

\* String.prototype.split(/\s+/): the pieces between maximal runs of blanks;
\* the empty string splits into one empty piece
RECURSIVE SplitWs(_, _)
SplitWs(s, cur) ==
    IF s = <<>> THEN <<cur>>
    ELSE IF IsSpace(Head(s))
         THEN <<cur>> \o SplitWs(TrimLeft(s), <<>>)
         ELSE SplitWs(Tail(s), Append(cur, Head(s)))

\* Array.prototype.join(sep) of an array of strings
RECURSIVE Join(_, _)
Join(parts, sep) ==
    IF parts = <<>> THEN <<>>
    ELSE IF Len(parts) = 1 THEN parts[1]
         ELSE parts[1] \o sep \o Join(Tail(parts), sep)

----------------------------------------------------------------------------
(* Change significance detector *)

\* StatusColumn reading the column before
StatusColumnSecond(cols) == IF Len(cols) >= 2 THEN cols[2] ELSE <<>>

\* cols[2] of a line: the third column, <<>> (falsy) when there is none
StatusColumn(cols) == IF Len(cols) >= 3 THEN cols[3] ELSE <<>>

\* LineModified without the comparison with '='
LineModifiedAny(line) ==
    LET cols == SplitWs(Trim(line), <<>>)
    IN  StatusColumn(cols) # <<>>

\* the callback of some(): cols[2] && cols[2] !== '='
LineModified(line) ==
    LET cols == SplitWs(Trim(line), <<>>)
    IN  StatusColumn(cols) # <<>> /\ StatusColumn(cols) # <<EQ>>

wasModified(rangeDiff) ==
    LET lines == SplitLines(rangeDiff)
    IN  \E i \in 1..Len(lines) : LineModified(lines[i])

----------------------------------------------------------------------------
(* State *)

VARIABLES
    cfg,                 \* the inputs read by core.getInput, as strings
    workflowRuns,        \* successful runs of the workflow on the branch, newest first
    prReviews,           \* the reviews of the pull request, as the platform holds them
    nextId,              \* id of the next workflow run
    lastFailure,         \* the step after the workflow listing and before the verdict at
                         \* which the execution before this one threw, "" if there is none
    execs,               \* executions started so far
    event,               \* github.context of the running execution
    pc,                  \* position of the running execution
    outcome,             \* "running", "ok", "failed" (core.setFailed) or "threw"
    scanIndex,           \* i of the fallback search
    shaArtifact,         \* <<>> or <<the artifact found>>
    prevShas,            \* [prevHeadSha, prevBaseSha] read from the downloaded file
    rangeDiff,           \* stdout of git range-diff
    verdict,             \* <<>> or <<wasModified(rangeDiff)>>
    page,                \* page of getReviews
    reviews,             \* reviews fetched by getReviews
    latestReviewByUser,  \* user id -> <<>> or <<review>>
    dismissals,          \* the dismissal requests, each pending, fulfilled or rejected
    rerequestReviewers,  \* logins recorded for the re-request
    removedReviews,      \* <<>> or <<the list removeReviews resolved with>>
    calls,               \* the external requests of the running execution, in order
    uploaded             \* <<>> or <<content of the artifact uploaded by the execution>>

platformVars == <<cfg, workflowRuns, prReviews, nextId, lastFailure, execs>>
searchVars == <<scanIndex, shaArtifact, prevShas>>
detectVars == <<rangeDiff, verdict>>
reviewVars == <<page, reviews, latestReviewByUser, dismissals, rerequestReviewers, removedReviews>>
vars == <<cfg, workflowRuns, prReviews, nextId, lastFailure, execs, event, pc, outcome,
          scanIndex, shaArtifact, prevShas, rangeDiff, verdict, page, reviews,
          latestReviewByUser, dismissals, rerequestReviewers, removedReviews,
          calls, uploaded>>

\* the values an input can take: unset, or one of the two literals
InputValues == {"", "false", "true"}

\* a string in a condition: only the empty string is falsy
Truthy(s) == s # ""

\* one external request
Call(op, arg) == [op |-> op, arg |-> arg]

\* the requests of one kind among a sequence of requests
CallsOf(log, op) == SelectSeq(log, LAMBDA c : c.op = op)

----------------------------------------------------------------------------
(* Reviews *)

\* review.user of the accounts that review: a person and a bot
Users == { [id |-> 1, login |-> "alice", type |-> "User"],
           [id |-> 2, login |-> "ci-bot", type |-> "Bot"] }
UserIds == { u.id : u \in Users }

ReviewStates == {"APPROVED", "CHANGES_REQUESTED", "COMMENTED"}

\* submitted_at: timestamps of one fixed width, which compare as they order in time
Times == 1..2

\* the review lists of at most n reviews; a review's id is its place in the list
ReviewLists(n) ==
    UNION { [1..k -> [user : Users, state : ReviewStates, submitted_at : Times]]
            : k \in 0..n }

WithIds(list) ==
    [i \in 1..Len(list) |->
        [id |-> i, user |-> list[i].user, state |-> list[i].state,
         submitted_at |-> list[i].submitted_at]]

\* ReviewsPage that does not pass the page on: every request gets the first page
ReviewsPageFirst(all, p) ==
    Slice(all, 1, IF PerPage < Len(all) THEN PerPage ELSE Len(all))

\* one page of the review listing: GET .../reviews {per_page, page}
ReviewsPage(all, p) ==
    LET first == (p - 1) * PerPage + 1
        last == IF p * PerPage < Len(all) THEN p * PerPage ELSE Len(all)
    IN  Slice(all, first, last)

\* KeepsReview with the comparison turned round
KeepsReviewOlder(kept, review) ==
    kept = <<>> \/ kept[1].submitted_at > review.submitted_at

\* the test of the deduplication loop: no review kept for the author yet, or the
\* one kept was submitted before this one
KeepsReview(kept, review) ==
    kept = <<>> \/ kept[1].submitted_at < review.submitted_at

\* for (const review of reviews) { ... latestReviewByUser[review.user.id] = review }
RECURSIVE Deduplicate(_, _)
Deduplicate(list, latest) ==
    IF list = <<>> THEN latest
    ELSE IF Len(list) = 1
    THEN LET review == list[1]
         IN  IF KeepsReview(latest[review.user.id], review)
             THEN [latest EXCEPT ![review.user.id] = <<review>>]
             ELSE latest
    ELSE \* the loop over the first half of the list, then over the rest of it
         \* (the test has TLC compute the first half before it enters the rest)
         LET half == Len(list) \div 2
             first == Deduplicate(Slice(list, 1, half), latest)
         IN  IF DOMAIN first = DOMAIN latest
             THEN Deduplicate(Slice(list, half + 1, Len(list)), first)
             ELSE first

NoReviewByUser == [u \in UserIds |-> <<>>]

\* Object.values of an object with integer keys: in ascending order of the keys
RECURSIVE ObjectValues(_, _)
ObjectValues(obj, keys) ==
    IF keys = {} THEN <<>>
    ELSE LET k == CHOOSE x \in keys : \A y \in keys : x <= y
         IN  obj[k] \o ObjectValues(obj, keys \ {k})

\* const dismissStates = ['APPROVED']; if (dismissChangeRequested) push('CHANGES_REQUESTED')
dismissStates(c) ==
    IF Truthy(c.dismissChangeRequested)
    THEN {"APPROVED", "CHANGES_REQUESTED"}
    ELSE {"APPROVED"}

\* the condition of the continue in the selection loop
SkipsReview(c, review) ==
    \/ Truthy(c.ignoreBots) /\ review.user.type = "Bot"
    \/ review.state \notin dismissStates(c)

\* the reviews the selection loop issues a dismissal for, in the order of the loop
SelectedReviews(c, latest) ==
    SelectSeq(ObjectValues(latest, UserIds), LAMBDA r : ~SkipsReview(c, r))

\* LoginsOf that records people only
LoginsOfPeople(selected) ==
    LET people == SelectSeq(selected, LAMBDA r : r.user.type # "Bot")
    IN  [i \in 1..Len(people) |-> people[i].user.login]

\* rerequestReviewers.push(review.user.login), once per review selected
LoginsOf(selected) == [i \in 1..Len(selected) |-> selected[i].user.login]

\* dismissals.push(octokit.request(PUT .../reviews/{id}/dismissals))
DismissalsOf(selected) ==
    [i \in 1..Len(selected) |-> [review |-> selected[i].id, status |-> "pending"]]

DismissCalls(selected) ==
    [i \in 1..Len(selected) |-> Call("dismiss", selected[i].id)]

\* the platform dismisses a review
Dismissed(all, id) ==
    [i \in 1..Len(all) |->
        IF all[i].id = id THEN [all[i] EXCEPT !.state = "DISMISSED"] ELSE all[i]]

\* AllSettled that gives up at the first rejection, as Promise.all does
AllSettledOrRejected(ds) ==
    \/ \A i \in 1..Len(ds) : ds[i].status # "pending"
    \/ \E i \in 1..Len(ds) : ds[i].status = "rejected"

\* Promise.allSettled: no request is pending any more
AllSettled(ds) == \A i \in 1..Len(ds) : ds[i].status # "pending"

(* getReviews: the response to the request for one page arrives.  A full page
   makes the loop request the next one.  A short page ends getReviews, and
   removeReviews runs on without a pause: it deduplicates, selects, issues every
   dismissal request and hands them to Promise.allSettled. *)
ReviewsResponse ==
    /\ pc = "getReviews"
    /\ LET data == ReviewsPage(prReviews, page)
           all == reviews \o data
           latest == Deduplicate(all, NoReviewByUser)
           selected == SelectedReviews(cfg, latest)
       IN  /\ reviews' = all
           /\ page' = page + 1
           /\ IF Len(data) = PerPage
              THEN /\ calls' = Append(calls, Call("listReviews", page + 1))
                   /\ UNCHANGED <<pc, latestReviewByUser, dismissals, rerequestReviewers>>
              ELSE /\ latestReviewByUser' = latest
                   /\ rerequestReviewers' = LoginsOf(selected)
                   /\ dismissals' = DismissalsOf(selected)
                   /\ calls' = calls \o DismissCalls(selected)
                   /\ pc' = "allSettled"
    /\ UNCHANGED <<platformVars, event, outcome, searchVars, detectVars,
                   removedReviews, uploaded>>

(* One dismissal request settles: the platform dismissed the review, or the
   request failed. *)
DismissalSettles(k, ok) ==
    /\ pc = "allSettled"
    /\ k \in 1..Len(dismissals)
    /\ dismissals[k].status = "pending"
    /\ dismissals' = [dismissals EXCEPT ![k].status = IF ok THEN "fulfilled" ELSE "rejected"]
    /\ prReviews' = IF ok THEN Dismissed(prReviews, dismissals[k].review) ELSE prReviews
    /\ UNCHANGED <<cfg, workflowRuns, nextId, lastFailure, execs, event, pc, outcome, searchVars,
                   detectVars, page, reviews, latestReviewByUser, rerequestReviewers,
                   removedReviews, calls, uploaded>>

(* Promise.allSettled(dismissals).then(...): every request has settled. *)
AfterAllSettled ==
    /\ pc = "allSettled"
    /\ AllSettled(dismissals)
    /\ IF ~Truthy(cfg.reRequest)
       THEN /\ removedReviews' = <<rerequestReviewers>>
            /\ pc' = "removed"
            /\ UNCHANGED calls
       ELSE /\ calls' = Append(calls, Call("rerequest", rerequestReviewers))
            /\ pc' = "rerequest"
            /\ UNCHANGED removedReviews
    /\ UNCHANGED <<platformVars, event, outcome, searchVars, detectVars, page, reviews,
                   latestReviewByUser, dismissals, rerequestReviewers, uploaded>>

(* The re-request call settles: .then(() => rerequestReviewers) runs only when
   it succeeded; a failure rejects removeReviews and with it main. *)
RerequestResponse(ok) ==
    /\ pc = "rerequest"
    /\ IF ok
       THEN /\ removedReviews' = <<rerequestReviewers>>
            /\ pc' = "removed"
            /\ UNCHANGED outcome
       ELSE /\ outcome' = "threw"
            /\ pc' = "done"
            /\ UNCHANGED removedReviews
    /\ UNCHANGED <<platformVars, event, searchVars, detectVars, page, reviews,
                   latestReviewByUser, dismissals, rerequestReviewers, calls, uploaded>>

\* the event of a pull request, and the event of a run that has none
Heads == {"h1", "h2"}
Bases == {"b1"}
NoEvent == [prNumber |-> 0, head |-> "", base |-> "", workflow |-> ""]

(* A reconciliation examined alone: removeReviews has just been entered and
   getReviews has requested the first page. *)
InitReconcile ==
    /\ cfg \in [reRequest : InputValues, ignoreBots : InputValues,
                dismissChangeRequested : InputValues, showSummary : {""}]
    /\ prReviews \in { WithIds(l) : l \in ReviewLists(MaxReviews) }
    /\ workflowRuns = <<>>
    /\ nextId = 1
    /\ lastFailure = ""
    /\ execs = 1
    /\ event = [prNumber |-> 1, head |-> "h1", base |-> "b1", workflow |-> "ci"]
    /\ pc = "getReviews"
    /\ outcome = "running"
    /\ scanIndex = 0
    /\ shaArtifact = <<>>
    /\ prevShas = <<>>
    /\ rangeDiff = <<>>
    /\ verdict = <<TRUE>>
    /\ page = 1
    /\ reviews = <<>>
    /\ latestReviewByUser = NoReviewByUser
    /\ dismissals = <<>>
    /\ rerequestReviewers = <<>>
    /\ removedReviews = <<>>
    /\ calls = <<Call("listReviews", 1)>>
    /\ uploaded = <<>>

NextReconcile ==
    \/ ReviewsResponse
    \/ \E k \in 1..Cardinality(Users), ok \in BOOLEAN : DismissalSettles(k, ok)
    \/ AfterAllSettled
    \/ \E ok \in BOOLEAN : RerequestResponse(ok)

SpecReconcile == InitReconcile /\ [][NextReconcile]_vars

----------------------------------------------------------------------------
(* Revision state store and orchestrator *)

\* getCurrentShas(): [head.sha, base.sha] of the pull request of the event
\* getCurrentShas with the two commits in the other order
getCurrentShasSwapped(e) == << <<e.base>>, <<e.head>> >>

getCurrentShas(e) == << <<e.head>>, <<e.base>> >>

\* getCurrentShas().join('\n'), the content written to shas.txt
ShasFile(e) == Join(getCurrentShas(e), <<NL>>)

\* const [prevHeadSha, prevBaseSha] = content.split('\n'); a missing element is undefined
SplitNL(s) == SplitLines(s)
ReadShas(content) ==
    LET parts == SplitNL(content)
    IN  [head |-> IF Len(parts) >= 1 THEN parts[1] ELSE <<"undefined">>,
         base |-> IF Len(parts) >= 2 THEN parts[2] ELSE <<"undefined">>]

\* the workflows of the repository, as GET .../actions/workflows lists them
Workflows == << [id |-> 1, name |-> "ci"] >>

\* FindWorkflow that takes the first workflow of the listing
FindWorkflowFirst(name) == <<Head(Workflows)>>

\* workflows.find(workflow => workflow.name === workflowName)
FindWorkflow(name) == SelectSeq(Workflows, LAMBDA w : w.name = name)

\* FindArtifact that takes the first artifact of the run, whatever its name
FindArtifactAny(artifacts) == IF artifacts = <<>> THEN <<>> ELSE <<Head(artifacts)>>

\* artifacts.find(artifact => artifact.name === artifactName): <<>> or <<the first>>
FindArtifact(artifacts) ==
    LET named == SelectSeq(artifacts, LAMBDA a : a.name = artifactName)
    IN  IF named = <<>> THEN <<>> ELSE <<Head(named)>>

\* ScanLimit without the window
ScanLimitAll(runs) == Len(runs)

\* the bound of the search loop: Math.min(10, workflowRuns.length)
ScanLimit(runs) == IF Len(runs) < ScanWindow THEN Len(runs) ELSE ScanWindow

\* findBy.workflowRunId of the download
DownloadRunId(runs, found) == runs[1].id

\* ArtifactContent that returns the oldest artifact of the history
ArtifactContentOldest(runs, id) ==
    LET r == runs[Len(runs)]
    IN  IF r.artifacts = <<>> THEN <<>> ELSE r.artifacts[1].content

\* what the artifact service returns for an artifact id
ArtifactContent(runs, id) ==
    LET a == CHOOSE a \in UNION { { r.artifacts[j] : j \in 1..Len(r.artifacts) }
                                  : r \in { runs[i] : i \in 1..Len(runs) } } : a.id = id
    IN  a.content

\* one record of git range-diff: old commit, status, new commit, subject
RecordLine(st) ==
    LET old == IF st = ">" THEN <<"-:", SP, SP, "-------">> ELSE <<"1:", SP, SP, "c1">>
        new == IF st = "<" THEN <<"-:", SP, SP, "-------">> ELSE <<"1:", SP, SP, "c2">>
    IN  old \o <<SP, st, SP>> \o new \o <<SP, "subject">>

RECURSIVE RenderRecords(_)
RenderRecords(sts) ==
    IF sts = <<>> THEN <<>> ELSE RecordLine(Head(sts)) \o <<NL>> \o RenderRecords(Tail(sts))

Statuses == {EQ, "!", "<", ">"}
StatusSeqs == UNION { [1..k -> Statuses] : k \in 0..MaxCommits }

\* what git range-diff can print for two pairs: a range compared with itself
\* reports every commit as equal
RangeDiffOutputs(prev, cur) ==
    { RenderRecords(sts) :
        sts \in { q \in StatusSeqs :
                    (prev.head = cur[1] /\ prev.base = cur[2])
                        => \A i \in 1..Len(q) : q[i] = EQ } }

\* pushArtifact() up to its await: write shas.txt, ask for the upload
UploadCall(e) == Call("upload", ShasFile(e))

\* the failure of an awaited request rejects main
Throws ==
    /\ outcome' = "threw"
    /\ pc' = "done"

(* The platform starts the action for an event. *)
StartExecution(e) ==
    /\ pc = "idle"
    /\ execs < MaxExecutions
    /\ execs' = execs + 1
    /\ event' = e
    /\ pc' = "main"
    /\ UNCHANGED <<cfg, workflowRuns, prReviews, nextId, lastFailure, outcome, searchVars, detectVars,
                   reviewVars, calls, uploaded>>

\* the awaited steps of main() between the workflow listing and the verdict
PipelineSteps ==
    {"listRuns", "listArtifacts", "download", "gitFetch", "mergeBase", "rangeDiff"}

(* The process of an execution that has ended exits, and nothing of it is left
   but what it sent to the platform. *)
Exit ==
    /\ pc = "done"
    /\ event' = NoEvent
    /\ pc' = "idle"
    /\ outcome' = "running"
    /\ scanIndex' = 0
    /\ shaArtifact' = <<>>
    /\ prevShas' = <<>>
    /\ rangeDiff' = <<>>
    /\ verdict' = <<>>
    /\ page' = 1
    /\ reviews' = <<>>
    /\ latestReviewByUser' = NoReviewByUser
    /\ dismissals' = <<>>
    /\ rerequestReviewers' = <<>>
    /\ removedReviews' = <<>>
    /\ calls' = <<>>
    /\ uploaded' = <<>>
    /\ lastFailure' = IF outcome = "threw" /\ calls[Len(calls)].op \in PipelineSteps
                       THEN calls[Len(calls)].op
                       ELSE ""
    /\ UNCHANGED <<cfg, workflowRuns, prReviews, nextId, execs>>

(* A run of the workflow succeeds without this action having uploaded its
   artifact: the step was skipped, or the run uploaded something else. *)
OtherRun(other) ==
    /\ pc = "idle"
    /\ execs < MaxExecutions
    /\ Len(workflowRuns) < MaxRuns
    /\ workflowRuns' =
          <<[id |-> nextId,
             artifacts |-> IF other
                           THEN <<[id |-> nextId, name |-> "coverage", content |-> <<>>]>>
                           ELSE <<>>]>> \o workflowRuns
    /\ nextId' = nextId + 1
    /\ UNCHANGED <<cfg, prReviews, lastFailure, execs, event, pc, outcome, searchVars, detectVars,
                   reviewVars, calls, uploaded>>

(* main() up to its first await. *)
Main ==
    /\ pc = "main"
    /\ IF event.prNumber = 0
       THEN /\ outcome' = "failed"
            /\ pc' = "done"
            /\ UNCHANGED calls
       ELSE /\ calls' = Append(calls, Call("listWorkflows", event.workflow))
            /\ pc' = "listWorkflows"
            /\ UNCHANGED outcome
    /\ UNCHANGED <<platformVars, event, searchVars, detectVars, reviewVars, uploaded>>

WorkflowsResponse(ok) ==
    /\ pc = "listWorkflows"
    /\ IF ~ok THEN Throws /\ UNCHANGED calls
       ELSE IF FindWorkflow(event.workflow) = <<>>
       THEN /\ outcome' = "failed"
            /\ pc' = "done"
            /\ UNCHANGED calls
       ELSE /\ calls' = Append(calls, Call("listRuns", FindWorkflow(event.workflow)[1].id))
            /\ pc' = "listRuns"
            /\ UNCHANGED outcome
    /\ UNCHANGED <<platformVars, event, searchVars, detectVars, reviewVars, uploaded>>

RunsResponse(ok) ==
    /\ pc = "listRuns"
    /\ IF ~ok THEN Throws /\ UNCHANGED <<calls, scanIndex>>
       ELSE IF Len(workflowRuns) = 0
       THEN /\ calls' = Append(calls, UploadCall(event))
            /\ pc' = "upload"
            /\ UNCHANGED <<outcome, scanIndex>>
       ELSE /\ scanIndex' = 1
            /\ calls' = Append(calls, Call("listArtifacts", workflowRuns[1].id))
            /\ pc' = "listArtifacts"
            /\ UNCHANGED outcome
    /\ UNCHANGED <<platformVars, event, shaArtifact, prevShas, detectVars, reviewVars,
                   uploaded>>

(* The artifacts of the run under inspection arrive: the search stops at the
   artifact, goes on to the next run, or gives up. *)
ArtifactsResponse(ok) ==
    /\ pc = "listArtifacts"
    /\ IF ~ok THEN Throws /\ UNCHANGED <<calls, scanIndex, shaArtifact>>
       ELSE LET found == FindArtifact(workflowRuns[scanIndex].artifacts) IN
            IF found # <<>>
            THEN /\ shaArtifact' = found
                 /\ calls' = Append(calls,
                        Call("download", [artifact |-> found[1].id,
                                          workflowRunId |-> DownloadRunId(workflowRuns, scanIndex)]))
                 /\ pc' = "download"
                 /\ UNCHANGED <<outcome, scanIndex>>
            ELSE IF scanIndex < ScanLimit(workflowRuns)
            THEN /\ scanIndex' = scanIndex + 1
                 /\ calls' = Append(calls, Call("listArtifacts", workflowRuns[scanIndex + 1].id))
                 /\ UNCHANGED <<pc, outcome, shaArtifact>>
            ELSE /\ calls' = Append(calls, UploadCall(event))
                 /\ pc' = "upload"
                 /\ UNCHANGED <<outcome, scanIndex, shaArtifact>>
    /\ UNCHANGED <<platformVars, event, prevShas, detectVars, reviewVars, uploaded>>

DownloadResponse(ok) ==
    /\ pc = "download"
    /\ IF ~ok THEN Throws /\ UNCHANGED <<calls, prevShas>>
       ELSE /\ prevShas' = <<ReadShas(ArtifactContent(workflowRuns, shaArtifact[1].id))>>
            /\ calls' = Append(calls, Call("gitFetch", prevShas'[1]))
            /\ pc' = "gitFetch"
            /\ UNCHANGED outcome
    /\ UNCHANGED <<platformVars, event, scanIndex, shaArtifact, detectVars, reviewVars,
                   uploaded>>

\* git fetch, then git merge-base of the previous pair, then of the current pair
GitFetchDone(ok) ==
    /\ pc = "gitFetch"
    /\ IF ~ok THEN Throws /\ UNCHANGED calls
       ELSE /\ calls' = Append(calls, Call("mergeBase", <<prevShas[1].base, prevShas[1].head>>))
            /\ pc' = "mergeBasePrev"
            /\ UNCHANGED outcome
    /\ UNCHANGED <<platformVars, event, searchVars, detectVars, reviewVars, uploaded>>

PrevMergeBaseDone(ok) ==
    /\ pc = "mergeBasePrev"
    /\ IF ~ok THEN Throws /\ UNCHANGED calls
       ELSE /\ calls' = Append(calls, Call("mergeBase", <<<<event.base>>, <<event.head>>>>))
            /\ pc' = "mergeBaseCur"
            /\ UNCHANGED outcome
    /\ UNCHANGED <<platformVars, event, searchVars, detectVars, reviewVars, uploaded>>

CurrentMergeBaseDone(ok) ==
    /\ pc = "mergeBaseCur"
    /\ IF ~ok THEN Throws /\ UNCHANGED calls
       ELSE /\ calls' = Append(calls, Call("rangeDiff", <<prevShas[1].head, <<event.head>>>>))
            /\ pc' = "rangeDiff"
            /\ UNCHANGED outcome
    /\ UNCHANGED <<platformVars, event, searchVars, detectVars, reviewVars, uploaded>>

\* AfterRangeDiff that removes the reviews whatever the comparison says
AfterRangeDiffAlways(modified, c, e) ==
    [pc |-> "getReviews", call |-> Call("listReviews", 1)]

\* if (wasModified(rangeDiff)) removeReviews ... else if (showSummary) ... pushArtifact
AfterRangeDiff(modified, c, e) ==
    IF modified THEN [pc |-> "getReviews", call |-> Call("listReviews", 1)]
    ELSE IF Truthy(c.showSummary) THEN [pc |-> "summary", call |-> Call("summary", <<>>)]
    ELSE [pc |-> "upload", call |-> UploadCall(e)]

(* git range-diff ends; main classifies its output and either enters
   removeReviews, which requests the first page of reviews, or goes on to the
   summary and to pushArtifact. *)
RangeDiffDone(ok) ==
    /\ pc = "rangeDiff"
    /\ IF ~ok THEN Throws /\ UNCHANGED <<calls, detectVars>>
       ELSE \E out \in RangeDiffOutputs(prevShas[1], getCurrentShas(event)) :
            /\ rangeDiff' = out
            /\ verdict' = <<wasModified(out)>>
            /\ calls' = Append(calls, AfterRangeDiff(wasModified(out), cfg, event).call)
            /\ pc' = AfterRangeDiff(wasModified(out), cfg, event).pc
            /\ UNCHANGED outcome
    /\ UNCHANGED <<platformVars, event, searchVars, reviewVars, uploaded>>

\* AfterRemoveReviews that calls pushArtifact() before it writes the summary
AfterRemoveReviewsUploadsFirst ==
    /\ pc = "removed"
    /\ IF Truthy(cfg.showSummary)
       THEN /\ calls' = calls \o <<UploadCall(event), Call("summary", removedReviews[1])>>
            /\ pc' = "summary"
       ELSE /\ calls' = Append(calls, UploadCall(event))
            /\ pc' = "upload"
    /\ UNCHANGED <<platformVars, event, outcome, searchVars, detectVars, reviewVars,
                   uploaded>>

(* removeReviews has resolved: main writes the summary if asked to. *)
AfterRemoveReviews ==
    /\ pc = "removed"
    /\ IF Truthy(cfg.showSummary)
       THEN /\ calls' = Append(calls, Call("summary", removedReviews[1]))
            /\ pc' = "summary"
       ELSE /\ calls' = Append(calls, UploadCall(event))
            /\ pc' = "upload"
    /\ UNCHANGED <<platformVars, event, outcome, searchVars, detectVars, reviewVars,
                   uploaded>>

\* SummaryWritten that returns without pushArtifact()
SummaryWrittenReturns ==
    /\ pc = "summary"
    /\ outcome' = "ok"
    /\ pc' = "done"
    /\ UNCHANGED <<platformVars, event, searchVars, detectVars, reviewVars, calls, uploaded>>

SummaryWritten ==
    /\ pc = "summary"
    /\ calls' = Append(calls, UploadCall(event))
    /\ pc' = "upload"
    /\ UNCHANGED <<platformVars, event, outcome, searchVars, detectVars, reviewVars,
                   uploaded>>

(* The upload ends and with it main: the run succeeds and joins the history
   of the branch with its artifact. *)
UploadDone ==
    /\ pc = "upload"
    /\ uploaded' = <<calls[Len(calls)].arg>>
    /\ workflowRuns' =
          <<[id |-> nextId,
             artifacts |-> <<[id |-> nextId, name |-> artifactName,
                              content |-> calls[Len(calls)].arg]>>]>> \o workflowRuns
    /\ nextId' = nextId + 1
    /\ outcome' = "ok"
    /\ pc' = "done"
    /\ UNCHANGED <<cfg, prReviews, lastFailure, execs, event, searchVars, detectVars, reviewVars,
                   calls>>

\* the events: a pull request with its head and base, or a run without one
Events ==
    [prNumber : {1}, head : Heads, base : Bases, workflow : {"ci"}]
        \cup {[prNumber |-> 1, head |-> "h1", base |-> "b1", workflow |-> "renamed"],
              [NoEvent EXCEPT !.workflow = "ci"]}

\* the review lists an orchestrated execution starts from
InitialReviews ==
    { <<>>,
      <<[user |-> CHOOSE u \in Users : u.id = 1, state |-> "APPROVED", submitted_at |-> 1]>>,
      <<[user |-> CHOOSE u \in Users : u.id = 1, state |-> "APPROVED", submitted_at |-> 1],
        [user |-> CHOOSE u \in Users : u.id = 2, state |-> "APPROVED", submitted_at |-> 2]>> }

Init ==
    /\ cfg \in { [reRequest |-> v, ignoreBots |-> "", dismissChangeRequested |-> "",
                  showSummary |-> v] : v \in {"", "true"} }
    /\ prReviews \in { WithIds(l) : l \in InitialReviews }
    /\ workflowRuns = <<>>
    /\ nextId = 1
    /\ lastFailure = ""
    /\ execs = 0
    /\ event = NoEvent
    /\ pc = "idle"
    /\ outcome = "running"
    /\ scanIndex = 0
    /\ shaArtifact = <<>>
    /\ prevShas = <<>>
    /\ rangeDiff = <<>>
    /\ verdict = <<>>
    /\ page = 1
    /\ reviews = <<>>
    /\ latestReviewByUser = NoReviewByUser
    /\ dismissals = <<>>
    /\ rerequestReviewers = <<>>
    /\ removedReviews = <<>>
    /\ calls = <<>>
    /\ uploaded = <<>>

Next ==
    \/ \E e \in Events : StartExecution(e)
    \/ Exit
    \/ \E other \in BOOLEAN : OtherRun(other)
    \/ Main
    \/ \E ok \in BOOLEAN : WorkflowsResponse(ok)
    \/ \E ok \in BOOLEAN : RunsResponse(ok)
    \/ \E ok \in BOOLEAN : ArtifactsResponse(ok)
    \/ \E ok \in BOOLEAN : DownloadResponse(ok)
    \/ \E ok \in BOOLEAN : GitFetchDone(ok)
    \/ \E ok \in BOOLEAN : PrevMergeBaseDone(ok)
    \/ \E ok \in BOOLEAN : CurrentMergeBaseDone(ok)
    \/ \E ok \in BOOLEAN : RangeDiffDone(ok)
    \/ ReviewsResponse
    \/ \E k \in 1..Cardinality(Users), ok \in BOOLEAN : DismissalSettles(k, ok)
    \/ AfterAllSettled
    \/ \E ok \in BOOLEAN : RerequestResponse(ok)
    \/ AfterRemoveReviews
    \/ SummaryWritten
    \/ UploadDone

Spec == Init /\ [][Next]_vars

----------------------------------------------------------------------------
(* Executions that follow a successful one *)

(* The state a first, successful execution leaves behind: its run is the
   history of the branch and carries the pair of its event; the pull request
   has since been approved. *)
InitCrash ==
    /\ cfg \in [reRequest : {"", "true"}, ignoreBots : {""},
                dismissChangeRequested : {""}, showSummary : {"", "true"}]
    /\ prReviews = WithIds(<<[user |-> CHOOSE u \in Users : u.id = 1,
                              state |-> "APPROVED", submitted_at |-> 1]>>)
    /\ \E e \in [prNumber : {1}, head : Heads, base : Bases, workflow : {"ci"}] :
          workflowRuns = <<[id |-> 1,
                            artifacts |-> <<[id |-> 1, name |-> artifactName,
                                             content |-> ShasFile(e)]>>]>>
    /\ nextId = 2
    /\ lastFailure = ""
    /\ execs = 0
    /\ event = NoEvent
    /\ pc = "idle"
    /\ outcome = "running"
    /\ scanIndex = 0
    /\ shaArtifact = <<>>
    /\ prevShas = <<>>
    /\ rangeDiff = <<>>
    /\ verdict = <<>>
    /\ page = 1
    /\ reviews = <<>>
    /\ latestReviewByUser = NoReviewByUser
    /\ dismissals = <<>>
    /\ rerequestReviewers = <<>>
    /\ removedReviews = <<>>
    /\ calls = <<>>
    /\ uploaded = <<>>

SpecCrash == InitCrash /\ [][Next]_vars

----------------------------------------------------------------------------
(* The fallback search examined alone *)

\* a history of n successful runs, newest first, the run at place i carrying the
\* state artifact when carries[i]
HistoryOf(n, carries) ==
    [i \in 1..n |->
        [id |-> n - i + 1,
         artifacts |-> IF carries[i]
                       THEN <<[id |-> n - i + 1, name |-> artifactName,
                               content |-> <<"h2", NL, "b1">>]>>
                       ELSE <<>>]]

(* main() has found the workflow and asked for its successful runs on the
   branch. *)
InitSearch ==
    /\ cfg = [reRequest |-> "", ignoreBots |-> "", dismissChangeRequested |-> "",
              showSummary |-> ""]
    /\ prReviews = <<>>
    /\ \E n \in 0..MaxHistory : \E carries \in [1..n -> BOOLEAN] :
          /\ workflowRuns = HistoryOf(n, carries)
          /\ nextId = n + 1
    /\ lastFailure = ""
    /\ execs = 1
    /\ event = [prNumber |-> 1, head |-> "h1", base |-> "b1", workflow |-> "ci"]
    /\ pc = "listRuns"
    /\ outcome = "running"
    /\ scanIndex = 0
    /\ shaArtifact = <<>>
    /\ prevShas = <<>>
    /\ rangeDiff = <<>>
    /\ verdict = <<>>
    /\ page = 1
    /\ reviews = <<>>
    /\ latestReviewByUser = NoReviewByUser
    /\ dismissals = <<>>
    /\ rerequestReviewers = <<>>
    /\ removedReviews = <<>>
    /\ calls = <<Call("listWorkflows", "ci"), Call("listRuns", 1)>>
    /\ uploaded = <<>>

NextSearch ==
    \/ \E ok \in BOOLEAN : RunsResponse(ok)
    \/ \E ok \in BOOLEAN : ArtifactsResponse(ok)

SpecSearch == InitSearch /\ [][NextSearch]_vars

----------------------------------------------------------------------------
(* The paging of the reviews examined alone *)

\* n comments of one person, each submitted after the one before
Comments(n) ==
    [i \in 1..n |->
        [id |-> i, user |-> CHOOSE u \in Users : u.id = 1, state |-> "COMMENTED",
         submitted_at |-> i]]

(* removeReviews has just been entered and getReviews has requested the first
   page. *)
InitPages ==
    /\ cfg = [reRequest |-> "", ignoreBots |-> "", dismissChangeRequested |-> "",
              showSummary |-> ""]
    /\ \E n \in 0..MaxTotal : prReviews = Comments(n)
    /\ workflowRuns = <<>>
    /\ nextId = 1
    /\ lastFailure = ""
    /\ execs = 1
    /\ event = [prNumber |-> 1, head |-> "h1", base |-> "b1", workflow |-> "ci"]
    /\ pc = "getReviews"
    /\ outcome = "running"
    /\ scanIndex = 0
    /\ shaArtifact = <<>>
    /\ prevShas = <<>>
    /\ rangeDiff = <<>>
    /\ verdict = <<TRUE>>
    /\ page = 1
    /\ reviews = <<>>
    /\ latestReviewByUser = NoReviewByUser
    /\ dismissals = <<>>
    /\ rerequestReviewers = <<>>
    /\ removedReviews = <<>>
    /\ calls = <<Call("listReviews", 1)>>
    /\ uploaded = <<>>

NextPages == ReviewsResponse

SpecPages == InitPages /\ [][NextPages]_vars

----------------------------------------------------------------------------
(* The detector examined alone *)

\* the comparison outputs of at most n characters
Chars == {SP, NL, CR, EQ, "a"}
RawOutputs(n) == UNION { [1..k -> Chars] : k \in 0..n }

\* the comparison outputs of at most MaxLines lines of at most MaxCols columns,
\* the columns one blank apart and every line ended by a newline
Columns == {EQ, "!"}
TokenLines == UNION { [1..k -> Columns] : k \in 0..MaxCols }
RECURSIVE Spaced(_)
Spaced(cols) ==
    IF cols = <<>> THEN <<>>
    ELSE IF Len(cols) = 1 THEN cols
         ELSE <<Head(cols), SP>> \o Spaced(Tail(cols))
RECURSIVE Lined(_)
Lined(ls) == IF ls = <<>> THEN <<>> ELSE Spaced(Head(ls)) \o <<NL>> \o Lined(Tail(ls))
TokenOutputs == { Lined(ls) : ls \in UNION { [1..k -> TokenLines] : k \in 0..MaxLines } }

InitDetector ==
    /\ rangeDiff \in RawOutputs(MaxLen) \cup TokenOutputs
    /\ pc = "rangeDiff"
    /\ verdict = <<>>
    /\ cfg = [reRequest |-> "", ignoreBots |-> "", dismissChangeRequested |-> "",
              showSummary |-> ""]
    /\ prReviews = <<>>
    /\ workflowRuns = <<>>
    /\ nextId = 1
    /\ lastFailure = ""
    /\ execs = 1
    /\ event = [prNumber |-> 1, head |-> "h1", base |-> "b1", workflow |-> "ci"]
    /\ outcome = "running"
    /\ scanIndex = 0
    /\ shaArtifact = <<>>
    /\ prevShas = <<>>
    /\ page = 1
    /\ reviews = <<>>
    /\ latestReviewByUser = NoReviewByUser
    /\ dismissals = <<>>
    /\ rerequestReviewers = <<>>
    /\ removedReviews = <<>>
    /\ calls = <<>>
    /\ uploaded = <<>>

(* wasModified(rangeDiff) is evaluated. *)
Classify ==
    /\ pc = "rangeDiff"
    /\ verdict = <<>>
    /\ verdict' = <<wasModified(rangeDiff)>>
    /\ pc' = "classified"
    /\ UNCHANGED <<platformVars, event, outcome, searchVars, rangeDiff, reviewVars, calls,
                   uploaded>>

NextDetector == Classify

SpecDetector == InitDetector /\ [][NextDetector]_vars

----------------------------------------------------------------------------
(* Properties of the reconciliation *)

\* the selection loop has run
LoopDone == pc # "getReviews" /\ CallsOf(calls, "listReviews") # <<>>

\* the dismissal requests issued, and the ids of the reviews they name
DismissRequests == CallsOf(calls, "dismiss")
DismissedIds == { DismissRequests[i].arg : i \in 1..Len(DismissRequests) }

\* the reviews retrieved, and the one of a given id
Retrieved == { reviews[i] : i \in 1..Len(reviews) }
ReviewOf(id) == CHOOSE r \in Retrieved : r.id = id

\* the reviews of one author among those retrieved
ReviewsBy(u) == { r \in Retrieved : r.user.id = u }

(* C2: at most one dismissal request is issued per author; the review a request
   names is in the target set and no review of its author was submitted later;
   an author whose most recently submitted reviews are all outside the target
   set gets no dismissal, whatever the state of an earlier review. *)
C2_OnePerAuthorLatest ==
    /\ Len(DismissRequests) = Cardinality(DismissedIds)
    /\ \A a \in DismissedIds, b \in DismissedIds :
           ReviewOf(a).user.id = ReviewOf(b).user.id => a = b
    /\ \A a \in DismissedIds :
           /\ ReviewOf(a).state \in dismissStates(cfg)
           /\ \A r \in ReviewsBy(ReviewOf(a).user.id) :
                  r.submitted_at <= ReviewOf(a).submitted_at
    /\ \A u \in UserIds :
           (\A r \in ReviewsBy(u) :
               (\A q \in ReviewsBy(u) : q.submitted_at <= r.submitted_at)
                   => r.state \notin dismissStates(cfg))
           => \A a \in DismissedIds : ReviewOf(a).user.id # u

\* an author approved, then commented: the loop has run and dismissed neither
C2_Witness ==
    /\ pc = "removed"
    /\ \E r \in Retrieved, q \in Retrieved :
           /\ r.user.id = q.user.id /\ r.submitted_at < q.submitted_at
           /\ r.state = "APPROVED" /\ q.state = "COMMENTED"
           /\ r.id \notin DismissedIds /\ q.id \notin DismissedIds

\* dismiss-change-requested is unset or the literal 'false'
ChangeRequestedOff == cfg.dismissChangeRequested \in {"", "false"}

(* C3: with dismiss-change-requested off (unset or 'false'), no dismissal
   request names a review in state CHANGES_REQUESTED: every request names an
   APPROVED review. *)
C3_ChangeRequestsKept ==
    ChangeRequestedOff => \A a \in DismissedIds : ReviewOf(a).state = "APPROVED"

\* ignore-bots is unset or the literal 'false'
IgnoreBotsOff == cfg.ignoreBots \in {"", "false"}

(* C4: with ignore-bots enabled no review of a bot gets a dismissal request or
   a place in the re-request list; with ignore-bots off (unset or 'false') the
   latest review of a bot, when in the target set, is dismissed like any other. *)
C4_BotsIgnoredOnlyWhenEnabled ==
    /\ cfg.ignoreBots = "true" =>
           /\ \A a \in DismissedIds : ReviewOf(a).user.type # "Bot"
           /\ \A i \in 1..Len(rerequestReviewers) :
                  \A u \in Users : u.type = "Bot" => rerequestReviewers[i] # u.login
    /\ (IgnoreBotsOff /\ LoopDone) =>
           \A u \in Users :
               (/\ u.type = "Bot"
                /\ latestReviewByUser[u.id] # <<>>
                /\ latestReviewByUser[u.id][1].state \in dismissStates(cfg))
               => latestReviewByUser[u.id][1].id \in DismissedIds

\* the logins of the authors of the reviews the dismissal requests name, in order
RequestedLogins ==
    [i \in 1..Len(DismissRequests) |-> ReviewOf(DismissRequests[i].arg).user.login]

(* C5: the re-request candidates are the logins of the authors of the reviews
   a dismissal request was issued for, one per request and in the order of the
   requests, and the list removeReviews resolves with is that list, whichever
   of the requests succeeded or failed. *)
C5_CandidatesAreAttempted ==
    /\ LoopDone => rerequestReviewers = RequestedLogins
    /\ removedReviews # <<>> => removedReviews[1] = RequestedLogins

\* removeReviews resolved with two candidates, one dismissed and one whose request failed
C5_Witness ==
    /\ removedReviews # <<>>
    /\ Len(removedReviews[1]) = 2
    /\ \E i \in 1..Len(dismissals), j \in 1..Len(dismissals) :
           dismissals[i].status = "rejected" /\ dismissals[j].status = "fulfilled"

----------------------------------------------------------------------------
(* Properties of the detector *)

\* the lines of a string: a line starts at the first character and after every newline
LineStarts(s) == {1} \cup { i + 1 : i \in { j \in 1..Len(s) : s[j] = NL } }
LineEnd(s, a) ==
    IF \E j \in a..Len(s) : s[j] = NL
    THEN (CHOOSE j \in a..Len(s) : s[j] = NL /\ \A k \in a..(j - 1) : s[k] # NL) - 1
    ELSE Len(s)

\* the places of a line where a column starts, and the column that starts at a place
ColumnStarts(s, a) ==
    { i \in a..LineEnd(s, a) : ~IsSpace(s[i]) /\ (i = a \/ IsSpace(s[i - 1])) }
ColumnAt(s, a, i) ==
    LET last == CHOOSE j \in i..LineEnd(s, a) :
                    /\ \A k \in i..j : ~IsSpace(s[k])
                    /\ (j = LineEnd(s, a) \/ IsSpace(s[j + 1]))
    IN  Slice(s, i, last)

\* some record of the output has a third column that is not '='
SomeRecordChanged(s) ==
    \E a \in LineStarts(s) : \E i \in ColumnStarts(s, a) :
        /\ Cardinality({ j \in ColumnStarts(s, a) : j < i }) = 2
        /\ ColumnAt(s, a, i) # <<EQ>>

(* C9: wasModified is false when the third column of every record is '=', an
   output without lines included, and true when the third column of some
   record, wherever it stands, is anything else; a line without a third column
   is no record and counts for nothing. *)
C9_ModifiedIffSomeRecordNotEqual ==
    pc = "classified" => verdict = <<SomeRecordChanged(rangeDiff)>>

\* an equal record followed by a changed one was classified as modified
C9_Witness ==
    /\ pc = "classified"
    /\ rangeDiff = Lined(<< <<EQ, EQ, EQ>>, <<EQ, EQ, "!">> >>)
    /\ verdict = <<TRUE>>

----------------------------------------------------------------------------
(* Properties of the orchestrator *)

\* the history of the branch as the running execution found it
HistoryAtStart ==
    IF pc = "done" /\ outcome = "ok" THEN Tail(workflowRuns) ELSE workflowRuns

\* the run carries an artifact of the well-known name
CarriesState(run) ==
    \E j \in 1..Len(run.artifacts) : run.artifacts[j].name = artifactName

\* none of the runs the search may inspect carries the state artifact
NoPriorState(h) == \A i \in 1..Len(h) : i <= ScanWindow => ~CarriesState(h[i])

Running == pc # "idle"
AnyCall(ops) == \E i \in 1..Len(calls) : calls[i].op \in ops
LastCall == calls[Len(calls)]

\* the current pair, head then base, a newline between them
CurrentPairFile == <<event.head, NL, event.base>>

\* the run of the execution that just ended is the newest of the history and
\* carries the current pair under the well-known name
Persisted ==
    /\ uploaded = <<CurrentPairFile>>
    /\ workflowRuns # <<>>
    /\ \E j \in 1..Len(workflowRuns[1].artifacts) :
          /\ workflowRuns[1].artifacts[j].name = artifactName
          /\ workflowRuns[1].artifacts[j].content = CurrentPairFile

(* C1 as stated: every execution that has a pull request ends by uploading
   the state artifact. *)
C1_PersistUnlessNoPullRequest ==
    (pc = "done" /\ event.prNumber # 0) => uploaded # <<>>

(* C1 amended: an execution ends without an upload only if it was marked
   failed, for want of a pull request or of the workflow in the listing, or if
   an awaited request failed; every other execution ends by uploading the
   current pair, and the upload is its last request. *)
C1_PersistUnlessFailed ==
    pc = "done" =>
        /\ outcome = "failed" =>
              (event.prNumber = 0 \/ \A i \in 1..Len(Workflows) : Workflows[i].name # event.workflow)
        /\ outcome = "failed" => uploaded = <<>>
        /\ outcome = "threw" => uploaded = <<>>
        /\ outcome \in {"failed", "threw", "ok"}
        /\ outcome = "ok" => (Persisted /\ LastCall = Call("upload", CurrentPairFile))

\* an execution found prior state, classified the change as significant,
\* reconciled, wrote the summary and ended with the upload
C1_Witness ==
    /\ pc = "done"
    /\ outcome = "ok"
    /\ verdict = <<TRUE>>
    /\ AnyCall({"summary"})
    /\ Persisted

(* C6: the artifact is downloaded from the run it was found in: the run id
   given to the download is the id of the run whose listing held the artifact;
   and prior state within the window is not reported as absent. *)
C6_DownloadFromRunFound ==
    /\ \A i \in 1..Len(calls) :
          calls[i].op = "download" =>
              \E k \in 1..Len(HistoryAtStart) :
                  /\ HistoryAtStart[k].id = calls[i].arg.workflowRunId
                  /\ \E j \in 1..Len(HistoryAtStart[k].artifacts) :
                        /\ HistoryAtStart[k].artifacts[j].id = calls[i].arg.artifact
                        /\ HistoryAtStart[k].artifacts[j].name = artifactName
    /\ (Running /\ ~NoPriorState(HistoryAtStart) /\ verdict = <<>>) =>
          ~(pc = "upload" \/ (pc = "done" /\ outcome = "ok"))

(* C7: when the branch has no successful run, or none of the runs inspected
   carries the state artifact, the execution never leaves the way from the
   listings to the upload: no download, no git command, no review listing, no
   dismissal, no re-request; it is not marked failed; what it uploads is the
   current pair. *)
C7_NotFoundGoesToPersist ==
    (Running /\ NoPriorState(HistoryAtStart)) =>
        /\ pc \in {"main", "listWorkflows", "listRuns", "listArtifacts", "upload", "done"}
        /\ ~AnyCall({"download", "gitFetch", "mergeBase", "rangeDiff", "listReviews",
                     "dismiss", "rerequest", "summary"})
        /\ shaArtifact = <<>> /\ verdict = <<>>
        /\ AnyCall({"listRuns"}) => outcome # "failed"
        /\ outcome = "threw" => LastCall.op \in {"listWorkflows", "listRuns", "listArtifacts"}
        /\ pc = "upload" => LastCall = Call("upload", CurrentPairFile)
        /\ (pc = "done" /\ AnyCall({"upload"})) => (outcome = "ok" /\ Persisted)

\* the only earlier run carries an artifact of another name; the execution
\* inspected it and ended with the upload of the current pair
C7_Witness ==
    /\ pc = "done"
    /\ outcome = "ok"
    /\ Len(HistoryAtStart) = 1
    /\ HistoryAtStart[1].artifacts # <<>>
    /\ AnyCall({"listArtifacts"})
    /\ Persisted

(* C8: once the comparison is classified as unchanged the execution lists no
   reviews and issues no dismissal and no re-request: it writes the summary if
   asked to, and uploads. *)
C8_UnchangedGoesToPersist ==
    verdict = <<FALSE>> =>
        /\ pc \in {"summary", "upload", "done"}
        /\ ~AnyCall({"listReviews", "dismiss", "rerequest"})
        /\ dismissals = <<>> /\ removedReviews = <<>>
        /\ outcome \in {"running", "ok"}
        /\ pc = "upload" => LastCall = Call("upload", CurrentPairFile)
        /\ pc = "done" => Persisted

\* an unchanged comparison ended in the upload while an approval stood
C8_Witness ==
    /\ verdict = <<FALSE>>
    /\ pc = "done"
    /\ Persisted
    /\ \E i \in 1..Len(prReviews) : prReviews[i].state = "APPROVED"

\* the pair read from the store is the pair of the event
SamePair ==
    /\ prevShas # <<>>
    /\ prevShas[1].head = <<event.head>>
    /\ prevShas[1].base = <<event.base>>

(* C10: when the pair loaded from the store is the current pair, the verdict
   is "not significant" and the execution dismisses nothing. *)
C10_SamePairNotSignificant ==
    (SamePair /\ verdict # <<>>) =>
        /\ verdict = <<FALSE>>
        /\ ~AnyCall({"listReviews", "dismiss", "rerequest"})

\* a second execution on the pair the first one stored compared a record,
\* found it equal and ended with the approvals standing
C10_Witness ==
    /\ execs = 2
    /\ SamePair
    /\ rangeDiff = RecordLine(EQ) \o <<NL>>
    /\ verdict = <<FALSE>>
    /\ pc = "done" /\ outcome = "ok"
    /\ \E i \in 1..Len(prReviews) : prReviews[i].state = "APPROVED"

----------------------------------------------------------------------------
(* Properties of the dismissal fan-out and of the re-request *)

\* the re-request calls issued
RerequestCalls == CallsOf(calls, "rerequest")

\* removeReviews has run its selection loop
Selected == verdict = <<TRUE>> /\ pc # "getReviews"

\* removeReviews is past Promise.allSettled
PastAllSettled == Selected /\ pc # "allSettled"

(* C11: every dismissal request is issued before any of them settles; the
   engine goes on to the re-request, the summary and the upload only when no
   request is pending any more, whether fulfilled or rejected; a rejected
   dismissal neither keeps another from being issued and settling nor ends the
   execution. *)
C11_FanOutJoinsOnSettlement ==
    Selected =>
        LET requests == DismissRequests IN
        /\ Len(dismissals) = Len(requests)
        /\ \A i \in 1..Len(dismissals) : dismissals[i].review = requests[i].arg
        /\ Len(requests) = Cardinality({ u \in UserIds :
               /\ latestReviewByUser[u] # <<>>
               /\ ~SkipsReview(cfg, latestReviewByUser[u][1]) })
        /\ (pc # "allSettled" \/ AnyCall({"rerequest", "summary", "upload"})) =>
               \A i \in 1..Len(dismissals) : dismissals[i].status # "pending"
        /\ outcome = "threw" => LastCall.op = "rerequest"
        /\ pc = "allSettled" => outcome = "running"

\* of two dismissals one was rejected and the other fulfilled, and the
\* execution went on to the re-request and ended with the upload
C11_Witness ==
    /\ pc = "done" /\ outcome = "ok"
    /\ Len(dismissals) = 2
    /\ dismissals[1].status = "rejected" /\ dismissals[2].status = "fulfilled"
    /\ Len(RerequestCalls) = 1
    /\ Persisted

(* C13 as stated: of two reviews of one author submitted at the same time the
   one later in the list is kept. *)
C13_LastSeenWinsOnTies ==
    LoopDone =>
        \A r \in Retrieved, q \in Retrieved :
            (/\ r.user.id = q.user.id /\ r.submitted_at = q.submitted_at /\ r.id < q.id
             /\ \A o \in ReviewsBy(r.user.id) : o.submitted_at <= r.submitted_at)
            => latestReviewByUser[r.user.id] # <<r>>

(* C14: a re-request call is issued exactly when re-request is enabled and
   there is a candidate; it is then one call naming every candidate; with
   re-request unset or 'false', or without a candidate, none is issued. *)
C14_RerequestIffEnabledAndCandidates ==
    PastAllSettled =>
        IF cfg.reRequest = "true" /\ rerequestReviewers # <<>>
        THEN RerequestCalls = <<Call("rerequest", rerequestReviewers)>>
        ELSE RerequestCalls = <<>>

(* C15: when the re-request call fails, removeReviews still hands the
   candidates it computed to its caller. *)
C15_CandidatesReturnedOnFailure ==
    (pc = "done" /\ outcome = "threw" /\ LoopDone /\ LastCall.op = "rerequest")
        => removedReviews = <<rerequestReviewers>>

(* C12: without a pull request, or with the workflow missing from the
   listing, the execution is marked failed and ends at once: it uploads
   nothing and issues no dismissal and no re-request. *)
C12_FatalErrorsAbort ==
    /\ (Running /\ event.prNumber = 0) =>
          /\ pc \in {"main", "done"}
          /\ calls = <<>> /\ uploaded = <<>>
          /\ pc = "done" => outcome = "failed"
    /\ (Running /\ event.prNumber # 0
            /\ \A i \in 1..Len(Workflows) : Workflows[i].name # event.workflow) =>
          /\ pc \in {"main", "listWorkflows", "done"}
          /\ ~AnyCall({"listRuns", "listArtifacts", "download", "gitFetch", "mergeBase",
                       "rangeDiff", "listReviews", "dismiss", "rerequest", "summary",
                       "upload"})
          /\ uploaded = <<>>
          /\ pc = "done" => outcome \in {"failed", "threw"}
    /\ outcome = "failed" =>
          /\ pc = "done" /\ uploaded = <<>>
          /\ ~AnyCall({"dismiss", "rerequest", "upload"})
          /\ HistoryAtStart = workflowRuns

\* the event has a pull request, the listing does not hold its workflow, and
\* the execution ended marked failed after that one request
C12_Witness ==
    /\ pc = "done" /\ outcome = "failed"
    /\ event.prNumber # 0
    /\ calls = <<Call("listWorkflows", event.workflow)>>

----------------------------------------------------------------------------
(* Properties of an execution that follows a failed one *)

\* the newest run of the history, within the window, that carries the state
NewestStateRun(h) ==
    h[CHOOSE i \in 1..Len(h) :
        /\ i <= ScanWindow
        /\ CarriesState(h[i])
        /\ \A j \in 1..(i - 1) : ~CarriesState(h[j])]

\* the content of the state artifact of a run
StateOf(run) ==
    LET j == CHOOSE j \in 1..Len(run.artifacts) : run.artifacts[j].name = artifactName
    IN  run.artifacts[j].content

(* C16: an execution that fails at the run listing, at an artifact listing, at
   the download or at a git step reaches no verdict, uploads nothing and issues
   no dismissal and no re-request; an execution that loads a pair loads the one
   carried by the newest run of the history that carries the state, so that the
   execution after a failed one compares against the pair stored before the
   failure. *)
C16_FailureKeepsOlderBaseline ==
    /\ (pc = "done" /\ outcome = "threw" /\ LastCall.op \in PipelineSteps) =>
          /\ uploaded = <<>>
          /\ verdict = <<>>
          /\ ~AnyCall({"listReviews", "dismiss", "rerequest", "summary", "upload"})
    /\ (Running /\ prevShas # <<>>) =>
          /\ ~NoPriorState(HistoryAtStart)
          /\ StateOf(NewestStateRun(HistoryAtStart))
                 = prevShas[1].head \o <<NL>> \o prevShas[1].base
          /\ (lastFailure \in PipelineSteps /\ execs = 2) =>
                 NewestStateRun(HistoryAtStart).id = 1

\* the first execution failed at git fetch; the second loaded the pair stored
\* before it, found the head changed, dismissed the approval and stored its pair
C16_Witness ==
    /\ execs = 2
    /\ lastFailure = "gitFetch"
    /\ pc = "done" /\ outcome = "ok"
    /\ prevShas # <<>> /\ prevShas[1].head # <<event.head>>
    /\ NewestStateRun(HistoryAtStart).id = 1
    /\ verdict = <<TRUE>>
    /\ DismissedIds # {}
    /\ Persisted

----------------------------------------------------------------------------
(* Properties of the fallback search *)

\* the artifact listings requested so far, and the size of the window
Inspected == CallsOf(calls, "listArtifacts")
Window == IF Len(workflowRuns) < 10 THEN Len(workflowRuns) ELSE 10

(* C17: the search asks for the artifacts of the runs newest first, one run
   after the other, of no more than min(10, number of runs) runs and of no run
   after one that carries the state artifact; it ends with the artifact of the
   first run that carries it, and reports that there is none only after it has
   inspected every run of the window and none carries it. *)
C17_SearchNewestFirstInWindow ==
    /\ Len(Inspected) <= Window
    /\ \A k \in 1..Len(Inspected) :
          /\ Inspected[k].arg = workflowRuns[k].id
          /\ k < Len(Inspected) => ~CarriesState(workflowRuns[k])
    /\ pc = "listArtifacts" => scanIndex = Len(Inspected)
    /\ pc = "download" =>
          /\ Inspected # <<>>
          /\ CarriesState(workflowRuns[Len(Inspected)])
          /\ shaArtifact = <<workflowRuns[Len(Inspected)].artifacts[1]>>
    /\ pc = "upload" =>
          /\ Len(Inspected) = Window
          /\ \A k \in 1..Window : ~CarriesState(workflowRuns[k])
          /\ shaArtifact = <<>>

\* of eleven runs only the oldest carries the state: the search inspected the
\* ten newest and reported that there is none
C17_Witness ==
    /\ Len(workflowRuns) = 11
    /\ CarriesState(workflowRuns[11])
    /\ \A k \in 1..10 : ~CarriesState(workflowRuns[k])
    /\ pc = "upload"
    /\ Len(Inspected) = 10

----------------------------------------------------------------------------
(* Properties of the state store *)

(* C18: whatever path leads to it, the upload carries the pair of the current
   event, head, newline, base, and never the pair that was loaded; and what an
   execution reads back from a stored artifact is the head and the base that
   the artifact was stored with. *)
C18_SaveCurrentPairRoundTrip ==
    /\ \A i \in 1..Len(calls) :
          calls[i].op = "upload" => calls[i].arg = <<event.head, NL, event.base>>
    /\ uploaded # <<>> =>
          /\ uploaded = <<CurrentPairFile>>
          /\ StateOf(workflowRuns[1]) = CurrentPairFile
          /\ ReadShas(uploaded[1]) = [head |-> <<event.head>>, base |-> <<event.base>>]
    /\ prevShas # <<>> =>
          \E h \in Heads, b \in Bases :
              /\ shaArtifact[1].content = <<h, NL, b>>
              /\ prevShas[1] = [head |-> <<h>>, base |-> <<b>>]

\* an execution loaded the pair of head h2, compared it with its own head h1,
\* found a significant change and uploaded the pair of h1
C18_Witness ==
    /\ prevShas # <<>> /\ prevShas[1].head = <<"h2">>
    /\ event.head = "h1"
    /\ verdict = <<TRUE>>
    /\ pc = "done"
    /\ uploaded = <<<<"h1", NL, "b1">>>>
    /\ StateOf(workflowRuns[1]) = <<"h1", NL, "b1">>

----------------------------------------------------------------------------
(* Properties of the paging *)

\* the pages requested so far
PagesRequested == CallsOf(calls, "listReviews")

(* C19: getReviews asks for the pages 1, 2, 3, ... in this order, each after
   the pages before it came back full with 100 reviews; it asks for no page
   after the first one that holds fewer than 100, so that a pull request with
   n reviews costs n div 100 + 1 requests, an empty last page when n is a
   multiple of 100; what it returns is the reviews of the pages in page
   order. *)
C19_PagesUntilShortPage ==
    /\ \A k \in 1..Len(PagesRequested) : PagesRequested[k].arg = k
    /\ pc = "getReviews" =>
          /\ Len(PagesRequested) = page
          /\ Len(reviews) = (page - 1) * 100
          /\ Len(reviews) <= Len(prReviews)
          /\ \A i \in 1..Len(reviews) : reviews[i] = prReviews[i]
    /\ pc # "getReviews" =>
          /\ reviews = prReviews
          /\ Len(PagesRequested) = (Len(prReviews) \div 100) + 1

\* two hundred reviews: two full pages, then an empty third and no fourth
C19_Witness ==
    /\ Len(prReviews) = 200
    /\ pc = "allSettled"
    /\ Len(reviews) = 200
    /\ PagesRequested = <<Call("listReviews", 1), Call("listReviews", 2),
                          Call("listReviews", 3)>>

----------------------------------------------------------------------------
(* Properties of the order of the upload *)

\* the execution has asked for the upload
UploadAsked == calls # <<>> /\ calls[Len(calls)].op = "upload"

(* C20: an execution asks for the upload at most once, and after that request
   it sends no other; when a prior state was found the upload is not asked for
   before the verdict; when the verdict is "significant" it is asked for only
   after every dismissal request has settled and removeReviews has resolved,
   the re-request, if one was sent, having succeeded. *)
C20_UploadOnceAndLast ==
    /\ \A i \in 1..Len(calls) : calls[i].op = "upload" => i = Len(calls)
    /\ UploadAsked <=> (pc = "upload" \/ (pc = "done" /\ outcome = "ok"))
    /\ uploaded # <<>> => (pc = "done" /\ UploadAsked)
    /\ (UploadAsked /\ shaArtifact # <<>>) => verdict # <<>>
    /\ (UploadAsked /\ verdict = <<TRUE>>) =>
          /\ \A k \in 1..Len(dismissals) : dismissals[k].status \in {"fulfilled", "rejected"}
          /\ \A k \in 1..Len(dismissals) :
                \E i \in 1..(Len(calls) - 1) : calls[i] = Call("dismiss", dismissals[k].review)
          /\ removedReviews = <<rerequestReviewers>>

\* a significant change: a dismissal was rejected, the re-request and the
\* summary followed, and the one upload came after them all
C20_Witness ==
    /\ pc = "done" /\ outcome = "ok"
    /\ verdict = <<TRUE>>
    /\ \E k \in 1..Len(dismissals) : dismissals[k].status = "rejected"
    /\ AnyCall({"rerequest"}) /\ AnyCall({"summary"})
    /\ UploadAsked
    /\ \A i \in 1..(Len(calls) - 1) : calls[i].op # "upload"
    /\ uploaded # <<>>

====
